---- MODULE Spec2Model ----
(***************************************************************************)
(* PacketLight-Portal: the SNMP host-discovery sweep (SNMP/SnmpScan.ps1)   *)
(* and the navigation of the ALM dashboard (PL_Portal/GUIQC/frontend).     *)
(*                                                                         *)
(* SnmpScan.ps1 holds two revisions of the script:                         *)
(*   "v1"  lines 1-45    parallel-map only, inline probe, no preflight     *)
(*   "v2"  lines 46-169  preflight, Invoke-SnmpCheck helper, parallel-map  *)
(*                       on PowerShell >= 7, ThreadJob loop otherwise      *)
(* Both are modelled; the variable script says which one is running.       *)
(*                                                                         *)
(* Strings the code compares, splits or matches are sequences of           *)
(* one-character strings (Network, BaseNetwork, IP).  The text printed by  *)
(* snmpget is a sequence of lexemes, each lexeme an atomic piece of text   *)
(* for the regular expressions of the script (a marker, a quote, a blank,  *)
(* a line break, a word).  PowerShell hands the text over line by line:    *)
(* $output is $null for no line, a string for one line and an array of     *)
(* strings for two lines or more.                                          *)
(***************************************************************************)
EXTENDS Integers, Sequences, FiniteSets, TLC

(***************************************************************************)
(* Bounds of the model.                                                    *)
(***************************************************************************)
\* the sweep is 1..254 in the script; the model sweeps 1..LastHost
LastHost == 10
\* $MaxThreads is 100 in the script; scaled with the sweep
MaxThreads == 2
\* longest snmpget output (in lexemes) the parsing specification draws
MaxRawLen == 4
\* folders on the navigation path of the dashboard application
MaxDepth == 3
\* children in one response of the dashboard endpoint
MaxChildren == 2
\* rows of the test table
MaxTests == 3

Hosts == 1..LastHost

\* $null, and "nothing emitted", among the objects of the pipeline
Null == [null |-> TRUE]

\* a string variable that was not assigned
Unset == <<>>

(***************************************************************************)
(* Character strings.                                                      *)
(***************************************************************************)
DigitChars == <<"0", "1", "2", "3", "4", "5", "6", "7", "8", "9">>

IsDigit(c) == \E d \in 1..10 : DigitChars[d] = c

\* position of a character in the collation the sort uses; only the
\* relative order of the digits and of the separator matters here
CharRank(c) ==
    CASE c = "\n" -> 10
      [] c = " "  -> 32
      [] c = "."  -> 46
      [] c = "/"  -> 47
      [] c = "0"  -> 48
      [] c = "1"  -> 49
      [] c = "2"  -> 50
      [] c = "3"  -> 51
      [] c = "4"  -> 52
      [] c = "5"  -> 53
      [] c = "6"  -> 54
      [] c = "7"  -> 55
      [] c = "8"  -> 56
      [] c = "9"  -> 57
      [] OTHER    -> 97

\* "$_" interpolated into a string: the decimal text of an integer
RECURSIVE Digits(_)
Digits(n) ==
    IF n < 10 THEN <<DigitChars[n + 1]>>
    ELSE Digits(n \div 10) \o <<DigitChars[(n % 10) + 1]>>

\* comparison of two strings as Sort-Object compares string keys:
\* character by character, a proper prefix first; -1, 0 or 1
RECURSIVE StrCompare(_, _)
StrCompare(a, b) ==
    IF a = <<>> /\ b = <<>> THEN 0
    ELSE IF a = <<>> THEN -1
    ELSE IF b = <<>> THEN 1
    ELSE IF CharRank(Head(a)) < CharRank(Head(b)) THEN -1
    ELSE IF CharRank(Head(a)) > CharRank(Head(b)) THEN 1
    ELSE StrCompare(Tail(a), Tail(b))

Front(s) == SubSeq(s, 1, Len(s) - 1)

(***************************************************************************)
(* Network parsing: '^\d+\.\d+\.\d+\.\d+(\/\d+)?$'                         *)
(***************************************************************************)
\* one step of the automaton of  \d+\.\d+\.\d+\.\d+(\/\d+)?  ; 0 is dead,
\* 1 the start, 8 and 10 accept
Delta(q, c) ==
    CASE q = 1 /\ IsDigit(c) -> 2
      [] q = 2 /\ IsDigit(c) -> 2
      [] q = 2 /\ c = "."    -> 3
      [] q = 3 /\ IsDigit(c) -> 4
      [] q = 4 /\ IsDigit(c) -> 4
      [] q = 4 /\ c = "."    -> 5
      [] q = 5 /\ IsDigit(c) -> 6
      [] q = 6 /\ IsDigit(c) -> 6
      [] q = 6 /\ c = "."    -> 7
      [] q = 7 /\ IsDigit(c) -> 8
      [] q = 8 /\ IsDigit(c) -> 8
      [] q = 8 /\ c = "/"    -> 9
      [] q = 9 /\ IsDigit(c) -> 10
      [] q = 10 /\ IsDigit(c) -> 10
      [] OTHER -> 0

RECURSIVE RunFrom(_, _)
RunFrom(q, s) == IF s = <<>> THEN q ELSE RunFrom(Delta(q, Head(s)), Tail(s))

\* the whole string is  A.B.C.D  or  A.B.C.D/mask
DottedQuadShape(s) == RunFrom(1, s) \in {8, 10}

\* -match with ^...$ : "$" matches at the end of the string and also just
\* before a line feed that ends the string
NetworkMatches(s) ==
    \/ DottedQuadShape(s)
    \/ /\ s # <<>>
       /\ s[Len(s)] = "\n"
       /\ DottedQuadShape(Front(s))

\* ($Network -split '/')[0]
SplitSlashFirst(s) ==
    IF \E p \in 1..Len(s) : s[p] = "/"
    THEN LET p == CHOOSE p \in 1..Len(s) :
                      /\ s[p] = "/"
                      /\ \A r \in 1..(p - 1) : s[r] # "/"
         IN  SubSeq(s, 1, p - 1)
    ELSE s

\* -replace '\.\d+$','' : the dot and the digits that end the string (or
\* that stand just before its final line feed) are removed
ReplaceLastOctet(s) ==
    LET body == IF s # <<>> /\ s[Len(s)] = "\n" THEN Front(s) ELSE s
        rest == IF s # <<>> /\ s[Len(s)] = "\n" THEN <<"\n">> ELSE <<>>
        Ends(t, p) == /\ t[p] = "."
                      /\ p < Len(t)
                      /\ \A r \in (p + 1)..Len(t) : IsDigit(t[r])
        Cut(t) == IF \E p \in 1..Len(t) : Ends(t, p)
                  THEN SubSeq(t, 1, (CHOOSE p \in 1..Len(t) : Ends(t, p)) - 1)
                  ELSE t
    IN  IF \E p \in 1..Len(s) : Ends(s, p)
        THEN Cut(s)
        ELSE Cut(body) \o rest

\* the last octet cut off before the mask is split off
BaseNetworkOf_ReplaceFirst(s) == SplitSlashFirst(ReplaceLastOctet(s))

BaseNetworkOf(s) == ReplaceLastOctet(SplitSlashFirst(s))

\* "$BaseNetwork.$i"
IPOf(base, h) == base \o <<".">> \o Digits(h)

(***************************************************************************)
(* Output of snmpget and its parsing.                                      *)
(***************************************************************************)
Marker == "STRING:"
Quote  == "\""
Blank  == " "
LineBreak == "\n"

\* lexemes the parsing specification draws outputs from
Lexemes ==
    {Marker, Quote, Blank, LineBreak, "DeviceA", "Timeout", "No Such Object"}

\* the text cut at its line breaks
RECURSIVE SplitLines(_)
SplitLines(raw) ==
    IF \E p \in 1..Len(raw) : raw[p] = LineBreak
    THEN LET p == CHOOSE p \in 1..Len(raw) :
                      /\ raw[p] = LineBreak
                      /\ \A r \in 1..(p - 1) : raw[r] # LineBreak
         IN  <<SubSeq(raw, 1, p - 1)>> \o SplitLines(SubSeq(raw, p + 1, Len(raw)))
    ELSE <<raw>>

\* $output = & $SnmpExe @args: the lines snmpget wrote, without their line
\* terminators (no line when it wrote nothing)
Lines(raw) ==
    IF raw = <<>> THEN <<>>
    ELSE IF raw[Len(raw)] = LineBreak THEN SplitLines(Front(raw))
    ELSE SplitLines(raw)

\* truth value of $output: $null and the empty string are false, any other
\* string and any array of two lines or more are true
OutputTruthy(raw) ==
    IF Len(Lines(raw)) = 0 THEN FALSE
    ELSE IF Len(Lines(raw)) = 1 THEN Lines(raw)[1] # <<>>
    ELSE TRUE

\* truth value of ($output -match pattern): for a string whether it matches;
\* for an array the lines that match, true when there is one (a line that
\* matches one of the patterns of the script is not empty)
MatchTruthy(P(_), raw) == \E k \in 1..Len(Lines(raw)) : P(Lines(raw)[k])

\* truth value of ($output -notmatch pattern): for a string whether it does
\* not match; for an array the lines that do not match, true when there are
\* two or more of them or one that is not empty
NotMatchTruthy(P(_), raw) ==
    LET ls == Lines(raw)
        kept == {k \in 1..Len(ls) : ~P(ls[k])}
    IN  IF Len(ls) <= 1 THEN kept = 1..Len(ls)
        ELSE \/ Cardinality(kept) >= 2
             \/ \E k \in kept : ls[k] # <<>>

\* 'Timeout|No Such Object' found in a string (case-insensitive, anywhere)
HasNegativeMarker(raw) ==
    \E p \in 1..Len(raw) : raw[p] \in {"Timeout", "timeout", "No Such Object"}

\* String.Trim(char): the character removed from both ends
RECURSIVE TrimStart(_, _)
TrimStart(s, c) ==
    IF s # <<>> /\ Head(s) = c THEN TrimStart(Tail(s), c) ELSE s

RECURSIVE TrimEnd(_, _)
TrimEnd(s, c) ==
    IF s # <<>> /\ s[Len(s)] = c THEN TrimEnd(Front(s), c) ELSE s

TrimChar(s, c) == TrimEnd(TrimStart(s, c), c)

\* String.Trim(): white space (blanks, line breaks) removed from both ends
RECURSIVE Trim(_)
Trim(s) ==
    IF s # <<>> /\ Head(s) \in {Blank, LineBreak} THEN Trim(Tail(s))
    ELSE IF s # <<>> /\ s[Len(s)] \in {Blank, LineBreak} THEN Trim(Front(s))
    ELSE s

\* number of blanks that follow position m
RECURSIVE BlankRun(_, _)
BlankRun(raw, m) ==
    IF m + 1 <= Len(raw) /\ raw[m + 1] = Blank THEN 1 + BlankRun(raw, m + 1)
    ELSE 0

\* 'STRING:\s*"(.*)"' tried with the marker at position m: the blanks, an
\* opening quote, then everything up to the last quote of the text
QuotedAt(raw, m) ==
    LET q == m + BlankRun(raw, m) + 1
    IN  /\ raw[m] = Marker
        /\ q <= Len(raw)
        /\ raw[q] = Quote
        /\ \E e \in (q + 1)..Len(raw) : raw[e] = Quote

QuotedMatches(raw) == \E m \in 1..Len(raw) : QuotedAt(raw, m)

\* $matches[1] of the quoted pattern (leftmost match, greedy group)
QuotedGroup(raw) ==
    LET m == CHOOSE m \in 1..Len(raw) :
                 /\ QuotedAt(raw, m)
                 /\ \A r \in 1..(m - 1) : ~QuotedAt(raw, r)
        q == m + BlankRun(raw, m) + 1
        e == CHOOSE e \in (q + 1)..Len(raw) :
                 /\ raw[e] = Quote
                 /\ \A r \in (e + 1)..Len(raw) : raw[r] # Quote
    IN  SubSeq(raw, q + 1, e - 1)

\* 'STRING:\s*(.+?)(\s|$)' tried with the marker at m, k blanks given to
\* \s* and n lexemes to the lazy group
UnquotedTry(raw, m, k, n) ==
    LET g == m + k + 1
    IN  /\ raw[m] = Marker
        /\ k <= BlankRun(raw, m)
        /\ n >= 1
        /\ g + n - 1 <= Len(raw)
        /\ \/ g + n - 1 = Len(raw)
           \/ raw[g + n] = Blank

UnquotedAt(raw, m) ==
    \E k \in 0..Len(raw) : \E n \in 1..Len(raw) : UnquotedTry(raw, m, k, n)

UnquotedMatches(raw) == \E m \in 1..Len(raw) : UnquotedAt(raw, m)

\* $matches[1] of the unquoted pattern: leftmost marker, as many blanks as
\* possible for \s*, as few lexemes as possible for the group
UnquotedGroup(raw) ==
    LET m == CHOOSE m \in 1..Len(raw) :
                 /\ UnquotedAt(raw, m)
                 /\ \A r \in 1..(m - 1) : ~UnquotedAt(raw, r)
        k == CHOOSE k \in 0..Len(raw) :
                 /\ \E n \in 1..Len(raw) : UnquotedTry(raw, m, k, n)
                 /\ \A k2 \in (k + 1)..Len(raw) :
                        ~\E n \in 1..Len(raw) : UnquotedTry(raw, m, k2, n)
        n == CHOOSE n \in 1..Len(raw) :
                 /\ UnquotedTry(raw, m, k, n)
                 /\ \A n2 \in 1..(n - 1) : ~UnquotedTry(raw, m, k, n2)
        g == m + k + 1
    IN  \* a lexeme with blanks inside stops the lazy group at its first word
        IF raw[g] = "No Such Object" THEN <<"No">>
        ELSE SubSeq(raw, g, g + n - 1)

\* the if / elseif / else that computes $product: which branch is taken
ExtractPath(raw) ==
    IF MatchTruthy(QuotedMatches, raw) THEN "quoted"
    ELSE IF MatchTruthy(UnquotedMatches, raw) THEN "unquoted"
    ELSE "whole"

\* $product for an output of one line, a string
Extract(raw) ==
    IF QuotedMatches(raw) THEN Trim(QuotedGroup(raw))
    ELSE IF UnquotedMatches(raw) THEN Trim(TrimChar(UnquotedGroup(raw), Quote))
    ELSE Trim(raw)

\* a $product that is $null
NullProduct == <<"$null">>

\* a $product that is an array of strings
RECURSIVE ArrayItems(_)
ArrayItems(ls) ==
    IF Len(ls) = 1 THEN Trim(ls[1])
    ELSE Trim(ls[1]) \o <<",">> \o ArrayItems(Tail(ls))

ArrayProduct(ls) == <<"@(">> \o ArrayItems(ls) \o <<")">>

\* $product at the end of the if / elseif / else.  With an array on its
\* left -match does not set $matches, which no statement of the runspace
\* has set before: $matches[1] then fails ("Cannot index into a null
\* array"), the assignment is not made and $product keeps $null.  In the
\* else branch .Trim() is called on every line of the array.
Product(raw) ==
    IF Len(Lines(raw)) = 1 THEN Extract(Lines(raw)[1])
    ELSE IF ExtractPath(raw) \in {"quoted", "unquoted"} THEN NullProduct
    ELSE ArrayProduct(Lines(raw))

\* Invoke-SnmpCheck with the value patterns tried before the negative
\* markers
InvokeSnmpCheckPath_ExtractFirst(threw, raw) ==
    IF threw THEN "catch"
    ELSE IF ~OutputTruthy(raw) THEN "empty"
    ELSE IF ExtractPath(raw) # "whole" THEN ExtractPath(raw)
    ELSE IF MatchTruthy(HasNegativeMarker, raw) THEN "negative"
    ELSE "whole"

\* Invoke-SnmpCheck of v2: which return or branch the call ends in
InvokeSnmpCheckPath(threw, raw) ==
    IF threw THEN "catch"
    ELSE IF ~OutputTruthy(raw) THEN "empty"
    ELSE IF MatchTruthy(HasNegativeMarker, raw) THEN "negative"
    ELSE ExtractPath(raw)

\* script block of Start-ThreadJob: the same steps, copied into the job
ThreadJobPath(threw, raw) ==
    IF threw THEN "catch"
    ELSE IF ~OutputTruthy(raw) THEN "empty"
    ELSE IF MatchTruthy(HasNegativeMarker, raw) THEN "negative"
    ELSE ExtractPath(raw)

\* script block of v1: no try/catch (the exception ends the iteration),
\* one test for "output and no negative marker"
InlineProbePath(threw, raw) ==
    IF threw THEN "error"
    ELSE IF OutputTruthy(raw) /\ NotMatchTruthy(HasNegativeMarker, raw)
         THEN ExtractPath(raw)
    ELSE IF ~OutputTruthy(raw) THEN "empty"
    ELSE "negative"

ValuePaths == {"quoted", "unquoted", "whole"}

\* what a probe emits: a record, or nothing (Null)
ProbeOutput(path, ip, raw) ==
    IF path \in ValuePaths THEN [IP |-> ip, ProductName |-> Product(raw)]
    ELSE Null

InvokeSnmpCheck(ip, threw, raw) ==
    ProbeOutput(InvokeSnmpCheckPath(threw, raw), ip, raw)

\* the job labelling its record with the base address and host 1 in place
\* of its own argument $ip
ThreadJobProbe_FirstAddress(ip, threw, raw) ==
    ProbeOutput(ThreadJobPath(threw, raw), IPOf(ReplaceLastOctet(ip), 1), raw)

ThreadJobProbe(ip, threw, raw) ==
    ProbeOutput(ThreadJobPath(threw, raw), ip, raw)

InlineProbe(ip, threw, raw) ==
    ProbeOutput(InlineProbePath(threw, raw), ip, raw)

(***************************************************************************)
(* Result collection and the final report.                                 *)
(***************************************************************************)
\* "if ($Results.Count -gt 1)" in place of "if ($Results)"
Truthy_CountAboveOne(results) == Len(results) > 1

\* truth value of $Results in "if ($Results)": nothing is false, a single
\* object has its own truth value, two or more objects are true
Truthy(results) ==
    IF Len(results) = 0 THEN FALSE
    ELSE IF Len(results) = 1 THEN results[1] # Null
    ELSE TRUE

\* Where-Object { $_ }
RECURSIVE WhereTruthy(_)
WhereTruthy(results) ==
    IF results = <<>> THEN <<>>
    ELSE IF Head(results) = Null THEN WhereTruthy(Tail(results))
    ELSE <<Head(results)>> \o WhereTruthy(Tail(results))

\* r put into a sequence sorted by IP, after the records that do not
\* compare greater
RECURSIVE InsertByIP(_, _)
InsertByIP(sorted, r) ==
    IF sorted = <<>> THEN <<r>>
    ELSE IF StrCompare(Head(sorted).IP, r.IP) <= 0
         THEN <<Head(sorted)>> \o InsertByIP(Tail(sorted), r)
         ELSE <<r>> \o sorted

\* Sort-Object IP: ascending by the IP property, a string
RECURSIVE SortObjectIP(_)
SortObjectIP(records) ==
    IF records = <<>> THEN <<>>
    ELSE InsertByIP(SortObjectIP(Front(records)), records[Len(records)])

\* the orders in which a set of emitted objects can arrive
Arrivals(S) ==
    {s \in [1..Cardinality(S) -> S] :
        \A a, b \in 1..Cardinality(S) : a # b => s[a] # s[b]}

(***************************************************************************)
(* State.                                                                  *)
(***************************************************************************)
VARIABLES
    script,        \* which revision of the script runs: "v1" or "v2"
    PSMajor,       \* $PSVersionTable.PSVersion.Major of the session
    toolOnPath,    \* whether snmpget resolves on the search path
    tool,          \* per host, the responses snmpget can give
    hung,          \* the hosts for which snmpget never returns
    Network,       \* $Network, the argument of the script
    BaseNetwork,   \* $BaseNetwork
    pc,            \* position of the script
    err,           \* the error the script threw, "none" if none
    preflightRuns, \* evaluations of Get-Command $SnmpExe
    installRuns,   \* calls of Install-Module ThreadJob
    strategy,      \* "none", "parallel" (-Parallel) or "threadjob"
    i,             \* next host the controller hands out
    jobs,          \* per host, the state of its task or thread job
    out,           \* per host, what its task emitted
    submitted,     \* per host, how many tasks were created for it
    target,        \* per host, the address given to its task
    invoked,       \* per host, how many times snmpget was run for it
    argv,          \* per host, the command its task gave to run snmpget
    outcome,       \* per host, "none", "NoResponse", "Value", "Unresolved"
    Results,       \* $Results
    emitted,       \* "none", "table" or "empty" (No snmp devices)
    table,         \* the rows handed to Format-Table
    rawOut,        \* parsing specification: the output under test
    rawThrew,      \* parsing specification: whether the call threw
    helperRet,     \* parsing specification: result of Invoke-SnmpCheck
    jobRet,        \* parsing specification: result of the in-job copy
    inlineRet,     \* parsing specification: result of the v1 script block
    viewMode,      \* App: VIEW_DEVICES, VIEW_VERSIONS or VIEW_DASHBOARD
    selectedDevice,\* App: the device chosen, Null for null
    navigationPath,\* App: the stack of folders, [{id, name}, ...]
    data,          \* Dashboard: the response for the current folder, Null
                   \* while it is loading
    event,         \* the last handler that ran and its argument
    before,        \* the state of the App when handleDrillDown ran, Null
                   \* once a handler other than a breadcrumb has run since
    tests,         \* TestTable: the tests prop
    sortConfig,    \* TestTable: {key, direction}
    sortedTests,   \* TestTable: the rows as rendered
    clicked        \* TestTable: the column of the last header click

tableVars == <<tests, sortConfig, sortedTests, clicked>>
appVars == <<viewMode, selectedDevice, navigationPath, data, event, before>>
envVars == <<script, PSMajor, toolOnPath, tool, Network, hung>>
parseVars == <<rawOut, rawThrew, helperRet, jobRet, inlineRet>>
taskVars == <<jobs, out, submitted, target, invoked, argv, outcome>>
vars == <<script, PSMajor, toolOnPath, tool, hung, Network, BaseNetwork,
          pc, err, preflightRuns, installRuns, strategy, i, jobs, out,
          submitted, target, invoked, argv, outcome, Results, emitted,
          table,
          rawOut, rawThrew, helperRet, jobRet, inlineRet,
          viewMode, selectedDevice, navigationPath, data, event, before,
          tests, sortConfig, sortedTests, clicked>>

\* a string literal of the script as a character sequence
Net_10_30_6_0_24 == <<"1","0",".","3","0",".","6",".","0","/","2","4">>
Net_10_30_6_0    == <<"1","0",".","3","0",".","6",".","0">>
Base_10_30_6     == <<"1","0",".","3","0",".","6">>

\* responses of snmpget
Answer(text) == [threw |-> FALSE, raw |-> text]
LaunchFailure == [threw |-> TRUE, raw |-> <<>>]
RawDeviceA == <<Marker, Blank, Quote, "DeviceA", Quote>>
RawDeviceB == <<Marker, Blank, Quote, "DeviceB", Quote>>
RawTimeout == <<"Timeout", Blank, "DeviceA">>
RawNoSuch  == <<"No Such Object">>

\* hosts that may answer with a value in the sweep specification
Answering == {1, 2, 5, LastHost}

\* $Community, $OID, $SnmpExe, $Timeout
Community == "admin"
OID == ".1.3.6.1.4.1.4515.1.3.6.1.1.1.2.0"
SnmpExe == "snmpget"
Timeout == 1

\* $args = @("-v2c","-c",$Community,"-t",$Timeout,"-r","1",$IP,$OID)
ArgVector(ip) ==
    <<"-v2c", "-c", Community, "-t", Digits(Timeout), "-r", "1", ip, OID>>

\* v2: & $SnmpExe @args: the array is splatted, one argument per element
SplatCommand(ip) ==
    [form |-> "vector", exe |-> SnmpExe, args |-> ArgVector(ip)]

\* v1: $cmd = "& '$using:SnmpExe' -v2c -c $using:Community -t $using:Timeout
\* -r 1 $IP $using:OID 2>`$null", run by Invoke-Expression, which parses
\* the string into the command and its arguments
InlineCommand(ip) ==
    [form |-> "string", exe |-> SnmpExe,
     args |-> <<"-v2c", "-c", Community, "-t", Digits(Timeout), "-r", "1",
                ip, OID>>]

SweepTool ==
    [h \in Hosts |->
        IF h \in Answering
        THEN {Answer(RawDeviceA), Answer(RawTimeout)}
        ELSE {Answer(RawTimeout), Answer(<<>>), LaunchFailure}]

\* the throttle counting every job of $jobs, whatever its state
RunningCount_CountsAll == Cardinality({h \in Hosts : jobs[h] # "None"})

\* tasks counted by the throttle of the loop: State -eq 'Running'
RunningCount == Cardinality({h \in Hosts : jobs[h] = "Running"})

\* tasks handed out and not yet completed, whatever their state
InFlight == Cardinality({h \in Hosts : jobs[h] \in {"NotStarted", "Running"}})

\* no task that was created is still queued or running
AllCompleted == \A h \in Hosts : jobs[h] \in {"None", "Completed"}

\* what running snmpget for host h can give
ToolRuns(h) == IF toolOnPath THEN tool[h] ELSE {LaunchFailure}

OutcomeOf(path) == IF path \in ValuePaths THEN "Value" ELSE "NoResponse"

\* view modes of the App
VIEW_DEVICES == "VIEW_DEVICES"
VIEW_VERSIONS == "VIEW_VERSIONS"
VIEW_DASHBOARD == "VIEW_DASHBOARD"

\* the event recorded before any handler ran
NoEvent == [handler |-> "none", arg |-> 0]

\* useState(VIEW_DEVICES), useState(null), useState([])
InitAppState ==
    /\ viewMode = VIEW_DEVICES
    /\ selectedDevice = Null
    /\ navigationPath = <<>>
    /\ data = Null
    /\ event = NoEvent
    /\ before = Null

\* useState({ key: 'name', direction: 'asc' })
InitSortConfig == [key |-> "name", direction |-> "asc"]

\* no test table is mounted
InitTableIdle ==
    /\ tests = <<>>
    /\ sortConfig = InitSortConfig
    /\ sortedTests = <<>>
    /\ clicked = "none"

\* $jobs: the jobs the loop has created; $jobs += adds one and nothing
\* takes one out
JobsArray == {h \in Hosts : strategy = "threadjob" /\ submitted[h] > 0}

\* the jobs of the session: Receive-Job -AutoRemoveJob removes them once
\* it has returned their output
SessionJobs == IF pc \in {"report", "done"} THEN {} ELSE JobsArray

InitSweepState ==
    /\ BaseNetwork = Unset
    /\ pc = "parse"
    /\ err = "none"
    /\ preflightRuns = 0
    /\ installRuns = 0
    /\ strategy = "none"
    /\ i = 1
    /\ jobs = [h \in Hosts |-> "None"]
    /\ out = [h \in Hosts |-> Null]
    /\ submitted = [h \in Hosts |-> 0]
    /\ target = [h \in Hosts |-> Unset]
    /\ invoked = [h \in Hosts |-> 0]
    /\ argv = [h \in Hosts |-> Null]
    /\ outcome = [h \in Hosts |-> "none"]
    /\ Results = <<>>
    /\ emitted = "none"
    /\ table = <<>>

InitParseIdle ==
    /\ rawOut = <<>>
    /\ rawThrew = FALSE
    /\ helperRet = Null
    /\ jobRet = Null
    /\ inlineRet = Null

Init ==
    /\ script \in {"v1", "v2"}
    /\ PSMajor \in {5, 7}
    /\ toolOnPath \in BOOLEAN
    /\ hung = {}
    /\ InitAppState
    /\ InitTableIdle
    /\ tool = SweepTool
    /\ Network = Net_10_30_6_0_24
    /\ InitSweepState
    /\ InitParseIdle

(***************************************************************************)
(* The script, step by step.                                               *)
(***************************************************************************)
\* if ($Network -match ...) { $BaseNetwork = ... } else { throw ... }
\* v1 goes on to its ForEach-Object, v2 to the preflight
ParseNetwork ==
    /\ pc = "parse"
    /\ IF NetworkMatches(Network)
       THEN /\ BaseNetwork' = BaseNetworkOf(Network)
            /\ pc' = IF script = "v1" THEN "foreach" ELSE "preflight"
            /\ err' = err
       ELSE /\ err' = "InvalidSpec"
            /\ pc' = "failed"
            /\ BaseNetwork' = BaseNetwork
    /\ UNCHANGED <<appVars, tableVars>>
    /\ UNCHANGED <<envVars, parseVars, taskVars, preflightRuns, installRuns,
                   strategy, i, Results, emitted, table>>

\* v2: $snmpCmd = Get-Command $SnmpExe ...; if (-not $snmpCmd) { throw }
Preflight ==
    /\ pc = "preflight"
    /\ preflightRuns' = preflightRuns + 1
    /\ IF toolOnPath
       THEN /\ pc' = "select"
            /\ err' = err
       ELSE /\ err' = "ToolNotFound"
            /\ pc' = "failed"
    /\ UNCHANGED <<appVars, tableVars>>
    /\ UNCHANGED <<envVars, parseVars, taskVars, BaseNetwork, installRuns,
                   strategy, i, Results, emitted, table>>

\* the branch on the version recording -Parallel whatever the version, so
\* that the ThreadJob branch chooses a second time
SelectStrategy_ChoosesTwice ==
    /\ pc = "select"
    /\ pc' = IF PSMajor >= 7 THEN "parallel" ELSE "module"
    /\ strategy' = "parallel"
    /\ UNCHANGED <<appVars, tableVars>>
    /\ UNCHANGED <<envVars, parseVars, taskVars, BaseNetwork, err,
                   preflightRuns, installRuns, i, Results, emitted, table>>

\* v2: if ($PSVersionTable.PSVersion.Major -ge 7) { -Parallel } else { ... }
SelectStrategy ==
    /\ pc = "select"
    /\ IF PSMajor >= 7
       THEN /\ pc' = "parallel"
            /\ strategy' = "parallel"
       ELSE /\ pc' = "module"
            /\ strategy' = strategy
    /\ UNCHANGED <<appVars, tableVars>>
    /\ UNCHANGED <<envVars, parseVars, taskVars, BaseNetwork, err,
                   preflightRuns, installRuns, i, Results, emitted, table>>

\* v1: 1..254 | ForEach-Object -Parallel {...}: the parameter exists from
\* PowerShell 7 on; before, binding it fails with an error that does not
\* end the script and $Results stays unset
ForEachBind ==
    /\ pc = "foreach"
    /\ IF PSMajor >= 7
       THEN /\ pc' = "parallel"
            /\ strategy' = "parallel"
       ELSE /\ pc' = "report"
            /\ strategy' = strategy
    /\ UNCHANGED <<appVars, tableVars>>
    /\ UNCHANGED <<envVars, parseVars, taskVars, BaseNetwork, err,
                   preflightRuns, installRuns, i, Results, emitted, table>>

\* v2, PowerShell 5.1: ThreadJob is looked up, installed when missing
\* (a failed installation throws), then imported
EnsureThreadJob ==
    /\ pc = "module"
    /\ \E available \in BOOLEAN, installed \in BOOLEAN :
          IF available
          THEN /\ pc' = "throttle"
               /\ strategy' = "threadjob"
               /\ UNCHANGED <<installRuns, err>>
          ELSE /\ installRuns' = installRuns + 1
               /\ IF installed
                  THEN /\ pc' = "throttle"
                       /\ strategy' = "threadjob"
                       /\ err' = err
                  ELSE /\ pc' = "failed"
                       /\ err' = "InstallFailed"
                       /\ strategy' = strategy
    /\ UNCHANGED <<appVars, tableVars>>
    /\ UNCHANGED <<envVars, parseVars, taskVars, BaseNetwork, preflightRuns,
                   i, Results, emitted, table>>

\* ForEach-Object -Parallel -ThrottleLimit $MaxThreads takes the next input
\* when fewer than $MaxThreads script blocks are running
ParallelDispatch ==
    /\ pc = "parallel"
    /\ i <= LastHost
    /\ RunningCount < MaxThreads
    /\ jobs' = [jobs EXCEPT ![i] = "Running"]
    /\ submitted' = [submitted EXCEPT ![i] = @ + 1]
    /\ target' = [target EXCEPT ![i] = IPOf(BaseNetwork, i)]
    /\ i' = i + 1
    /\ UNCHANGED <<appVars, tableVars>>
    /\ UNCHANGED <<envVars, parseVars, BaseNetwork, pc, err, preflightRuns,
                   installRuns, strategy, out, invoked, argv, outcome,
                   Results, emitted, table>>

\* v1: the script block runs snmpget and parses its output itself; what it
\* emits joins $Results; the block goes on when snmpget returns
InlineTask(h) ==
    /\ pc = "parallel"
    /\ script = "v1"
    /\ jobs[h] = "Running"
    /\ h \notin hung
    /\ \E resp \in ToolRuns(h) :
          LET path == InlineProbePath(resp.threw, resp.raw)
              rec  == InlineProbe(target[h], resp.threw, resp.raw)
          IN  /\ out' = [out EXCEPT ![h] = rec]
              /\ outcome' = [outcome EXCEPT ![h] = OutcomeOf(path)]
              /\ Results' = IF rec # Null THEN Append(Results, rec)
                            ELSE Results
    /\ invoked' = [invoked EXCEPT ![h] = IF toolOnPath THEN @ + 1 ELSE @]
    /\ argv' = [argv EXCEPT ![h] = InlineCommand(target[h])]
    /\ jobs' = [jobs EXCEPT ![h] = "Completed"]
    /\ UNCHANGED <<appVars, tableVars>>
    /\ UNCHANGED <<envVars, parseVars, BaseNetwork, pc, err, preflightRuns,
                   installRuns, strategy, i, submitted, target, emitted,
                   table>>

\* v2: the script block calls Invoke-SnmpCheck, a function of the calling
\* script; the runspace of a parallel script block does not have the
\* functions of its caller, the call fails with "term not recognized",
\* snmpget is not run and nothing is emitted
HelperTask(h) ==
    /\ pc = "parallel"
    /\ script = "v2"
    /\ jobs[h] = "Running"
    /\ outcome' = [outcome EXCEPT ![h] = "Unresolved"]
    /\ jobs' = [jobs EXCEPT ![h] = "Completed"]
    /\ UNCHANGED <<appVars, tableVars>>
    /\ UNCHANGED <<envVars, parseVars, BaseNetwork, pc, err, preflightRuns,
                   installRuns, strategy, i, out, submitted, target, invoked,
                   argv,
                   Results, emitted, table>>

\* the pipeline taken to end with its last input, without waiting for the
\* script blocks still running
ParallelEnd_NoDrain ==
    /\ pc = "parallel"
    /\ i > LastHost
    /\ pc' = "report"
    /\ UNCHANGED <<appVars, tableVars>>
    /\ UNCHANGED <<envVars, parseVars, taskVars, BaseNetwork, err,
                   preflightRuns, installRuns, strategy, i, Results, emitted,
                   table>>

\* the pipeline ends when every input was taken and every block finished
ParallelEnd ==
    /\ pc = "parallel"
    /\ i > LastHost
    /\ AllCompleted
    /\ pc' = "report"
    /\ UNCHANGED <<appVars, tableVars>>
    /\ UNCHANGED <<envVars, parseVars, taskVars, BaseNetwork, err,
                   preflightRuns, installRuns, strategy, i, Results, emitted,
                   table>>

\* the throttle written as "continue" in place of the wait: the host whose
\* turn it is when the cap is reached is passed over
Throttle_SkipsHost ==
    /\ pc = "throttle"
    /\ RunningCount >= MaxThreads
    /\ i' = i + 1
    /\ pc' = IF i = LastHost THEN "receive" ELSE "throttle"
    /\ UNCHANGED <<appVars, tableVars>>
    /\ UNCHANGED <<envVars, parseVars, taskVars, BaseNetwork, err,
                   preflightRuns, installRuns, strategy, Results, emitted,
                   table>>

\* while (@($jobs | Where-Object { $_.State -eq 'Running' }).Count
\*        -ge $MaxThreads) { Start-Sleep ... }: the test holds
Throttle ==
    /\ pc = "throttle"
    /\ RunningCount >= MaxThreads
    /\ pc' = "sleep"
    /\ UNCHANGED <<appVars, tableVars>>
    /\ UNCHANGED <<envVars, parseVars, taskVars, BaseNetwork, err,
                   preflightRuns, installRuns, strategy, i, Results, emitted,
                   table>>

\* Start-Sleep -Milliseconds 50, then the test again
Sleep ==
    /\ pc = "sleep"
    /\ pc' = "throttle"
    /\ UNCHANGED <<appVars, tableVars>>
    /\ UNCHANGED <<envVars, parseVars, taskVars, BaseNetwork, err,
                   preflightRuns, installRuns, strategy, i, Results, emitted,
                   table>>

\* the test fails: $jobs += Start-ThreadJob ...; the job is created in the
\* state NotStarted; after host 254 the loop ends
StartThreadJob ==
    /\ pc = "throttle"
    /\ RunningCount < MaxThreads
    /\ jobs' = [jobs EXCEPT ![i] = "NotStarted"]
    /\ submitted' = [submitted EXCEPT ![i] = @ + 1]
    /\ target' = [target EXCEPT ![i] = IPOf(BaseNetwork, i)]
    /\ i' = i + 1
    /\ pc' = IF i = LastHost THEN "receive" ELSE "throttle"
    /\ UNCHANGED <<appVars, tableVars>>
    /\ UNCHANGED <<envVars, parseVars, BaseNetwork, err, preflightRuns,
                   installRuns, strategy, out, invoked, argv, outcome,
                   Results, emitted, table>>

\* a pool thread takes the job at the head of the queue of ThreadJob:
\* NotStarted -> Running, in the order the jobs were queued (the limit of
\* the pool itself is left open: any number of jobs may be running)
JobStart(h) ==
    /\ strategy = "threadjob"
    /\ jobs[h] = "NotStarted"
    /\ \A g \in 1..(h - 1) : jobs[g] # "NotStarted"
    /\ jobs' = [jobs EXCEPT ![h] = "Running"]
    /\ UNCHANGED <<appVars, tableVars>>
    /\ UNCHANGED <<envVars, parseVars, BaseNetwork, pc, err, preflightRuns,
                   installRuns, strategy, i, out, submitted, target, invoked,
                   argv,
                   outcome, Results, emitted, table>>

\* the script block without its try/catch: a failure to launch snmpget
\* leaves the job Failed and the error ends the script at Receive-Job
JobRun_Propagates(h) ==
    /\ strategy = "threadjob"
    /\ jobs[h] = "Running"
    /\ h \notin hung
    /\ \E resp \in ToolRuns(h) :
          LET path == ThreadJobPath(resp.threw, resp.raw)
          IN  /\ out' = [out EXCEPT ![h] =
                            ThreadJobProbe(target[h], resp.threw, resp.raw)]
              /\ outcome' = [outcome EXCEPT ![h] = OutcomeOf(path)]
              /\ pc' = IF resp.threw THEN "failed" ELSE pc
              /\ err' = IF resp.threw THEN "ProbeFailed" ELSE err
    /\ invoked' = [invoked EXCEPT ![h] = @ + 1]
    /\ argv' = [argv EXCEPT ![h] = SplatCommand(target[h])]
    /\ jobs' = [jobs EXCEPT ![h] = "Completed"]
    /\ UNCHANGED <<appVars, tableVars>>
    /\ UNCHANGED <<envVars, parseVars, BaseNetwork, preflightRuns,
                   installRuns, strategy, i, submitted, target, Results,
                   emitted, table>>

\* the script block of the job runs snmpget and, when snmpget returns,
\* parses, emits a record or nothing, and the job is Completed
JobRun(h) ==
    /\ strategy = "threadjob"
    /\ jobs[h] = "Running"
    /\ h \notin hung
    /\ \E resp \in ToolRuns(h) :
          LET path == ThreadJobPath(resp.threw, resp.raw)
          IN  /\ out' = [out EXCEPT ![h] =
                            ThreadJobProbe(target[h], resp.threw, resp.raw)]
              /\ outcome' = [outcome EXCEPT ![h] = OutcomeOf(path)]
    /\ invoked' = [invoked EXCEPT ![h] = @ + 1]
    /\ argv' = [argv EXCEPT ![h] = SplatCommand(target[h])]
    /\ jobs' = [jobs EXCEPT ![h] = "Completed"]
    /\ UNCHANGED <<appVars, tableVars>>
    /\ UNCHANGED <<envVars, parseVars, BaseNetwork, pc, err, preflightRuns,
                   installRuns, strategy, i, submitted, target, Results,
                   emitted, table>>

\* Receive-Job without -Wait: returns what the jobs emitted so far
ReceiveJob_NoWait ==
    /\ pc = "receive"
    /\ Results' \in Arrivals({out[h] : h \in Hosts} \ {Null})
    /\ pc' = "report"
    /\ UNCHANGED <<appVars, tableVars>>
    /\ UNCHANGED <<envVars, parseVars, taskVars, BaseNetwork, err,
                   preflightRuns, installRuns, strategy, i, emitted, table>>

\* $Results = Receive-Job -Job $jobs -Wait -AutoRemoveJob: waits for every
\* job, returns what the jobs emitted, in the order it arrives
ReceiveJob ==
    /\ pc = "receive"
    /\ AllCompleted
    /\ Results' \in Arrivals({out[h] : h \in Hosts} \ {Null})
    /\ pc' = "report"
    /\ UNCHANGED <<appVars, tableVars>>
    /\ UNCHANGED <<envVars, parseVars, taskVars, BaseNetwork, err,
                   preflightRuns, installRuns, strategy, i, emitted, table>>

\* if ($Results) { $Results | [Where-Object { $_ } |] Sort-Object IP |
\* Format-Table } else { Write-Host "No snmp devices" }; v1 has no
\* Where-Object
Report ==
    /\ pc = "report"
    /\ IF Truthy(Results)
       THEN /\ emitted' = "table"
            /\ table' = IF script = "v2"
                        THEN SortObjectIP(WhereTruthy(Results))
                        ELSE SortObjectIP(Results)
       ELSE /\ emitted' = "empty"
            /\ table' = table
    /\ pc' = "done"
    /\ UNCHANGED <<appVars, tableVars>>
    /\ UNCHANGED <<envVars, parseVars, taskVars, BaseNetwork, err,
                   preflightRuns, installRuns, strategy, i, Results>>

Next ==
    \/ ParseNetwork
    \/ Preflight
    \/ SelectStrategy
    \/ ForEachBind
    \/ EnsureThreadJob
    \/ ParallelDispatch
    \/ \E h \in Hosts : InlineTask(h)
    \/ \E h \in Hosts : HelperTask(h)
    \/ ParallelEnd
    \/ Throttle
    \/ Sleep
    \/ StartThreadJob
    \/ \E h \in Hosts : JobStart(h)
    \/ \E h \in Hosts : JobRun(h)
    \/ ReceiveJob
    \/ Report

Spec == Init /\ [][Next]_vars

(***************************************************************************)
(* Specification of the end-to-end scenario: "10.30.6.0/24", snmpget on    *)
(* the path, DeviceA answered by .5, DeviceB by the last host of the sweep *)
(* (.200 in the full range: like it, an octet whose text sorts before      *)
(* "5"), a negative marker by every other host.                            *)
(***************************************************************************)
DeviceBHost == LastHost

E2ETool ==
    [h \in Hosts |->
        IF h = 5 THEN {Answer(RawDeviceA)}
        ELSE IF h = DeviceBHost THEN {Answer(RawDeviceB)}
        ELSE {Answer(RawTimeout)}]

InitE2E ==
    /\ script \in {"v1", "v2"}
    /\ PSMajor \in {5, 7}
    /\ toolOnPath = TRUE
    /\ hung = {}
    /\ InitAppState
    /\ InitTableIdle
    /\ tool = E2ETool
    /\ Network = Net_10_30_6_0_24
    /\ InitSweepState
    /\ InitParseIdle

SpecE2E == InitE2E /\ [][Next]_vars

(***************************************************************************)
(* Specification of the failing probes: DeviceA is answered by .1 and .2,  *)
(* snmpget cannot be launched for .3, prints nothing for .4, times out for *)
(* the hosts after .5; for .5 it answers or fails in any of these ways.    *)
(***************************************************************************)
IsolationTool ==
    [h \in Hosts |->
        IF h \in {1, 2} THEN {Answer(RawDeviceA)}
        ELSE IF h = 3 THEN {LaunchFailure}
        ELSE IF h = 4 THEN {Answer(<<>>)}
        ELSE IF h = 5 THEN {Answer(RawDeviceA), LaunchFailure, Answer(<<>>),
                            Answer(RawTimeout)}
        ELSE {Answer(RawTimeout)}]

InitIsolation ==
    /\ script \in {"v1", "v2"}
    /\ PSMajor \in {5, 7}
    /\ toolOnPath = TRUE
    /\ hung = {}
    /\ InitAppState
    /\ InitTableIdle
    /\ tool = IsolationTool
    /\ Network = Net_10_30_6_0_24
    /\ InitSweepState
    /\ InitParseIdle

SpecIsolation == InitIsolation /\ [][Next]_vars

(***************************************************************************)
(* Specification of the enumeration: arguments of the accepted shape with  *)
(* different fourth octets and masks, no host answering.                   *)
(***************************************************************************)
ValidNetworks ==
    { Net_10_30_6_0_24,
      Net_10_30_6_0,
      Base_10_30_6 \o <<".", "7", "7">>,
      Base_10_30_6 \o <<".", "2", "5", "5", "/", "3", "0">>,
      <<"1", ".", "2", ".", "3", ".", "4", "/", "8">> }

SilentTool == [h \in Hosts |-> {Answer(RawTimeout)}]

InitEnumerate ==
    /\ script \in {"v1", "v2"}
    /\ PSMajor \in {5, 7}
    /\ toolOnPath = TRUE
    /\ hung = {}
    /\ InitAppState
    /\ InitTableIdle
    /\ tool = SilentTool
    /\ Network \in ValidNetworks
    /\ InitSweepState
    /\ InitParseIdle

SpecEnumerate == InitEnumerate /\ [][Next]_vars

(***************************************************************************)
(* Specification of the probes that never complete: for some hosts snmpget *)
(* does not return; no host, one, as many as the cap, or two of them, the  *)
(* last host of the sweep included.                                        *)
(***************************************************************************)
HungSets == { {}, {1}, 1..MaxThreads, {2, LastHost} }

InitHung ==
    /\ script \in {"v1", "v2"}
    /\ PSMajor \in {5, 7}
    /\ toolOnPath = TRUE
    /\ tool = SweepTool
    /\ hung \in HungSets
    /\ InitAppState
    /\ InitTableIdle
    /\ Network = Net_10_30_6_0_24
    /\ InitSweepState
    /\ InitParseIdle

SpecHung == InitHung /\ [][Next]_vars

(***************************************************************************)
(* Specification of the fallback: v2 run on PowerShell 5.1 with snmpget on *)
(* the path and no probe that hangs.  The script is one sequential process *)
(* that, once in its loop, takes its next statement; the pool of           *)
(* ThreadJob starts a queued job when there is one, and of the probes that *)
(* are running one returns (-t and -r bound each call).  Two devices       *)
(* answer, or none does.                                                   *)
(***************************************************************************)
InitFallback ==
    /\ script = "v2"
    /\ PSMajor = 5
    /\ toolOnPath = TRUE
    /\ tool \in {E2ETool, SilentTool}
    /\ hung = {}
    /\ InitAppState
    /\ InitTableIdle
    /\ Network = Net_10_30_6_0_24
    /\ InitSweepState
    /\ InitParseIdle

\* the statements of the loop and the Receive-Job that follows it
LoopStep ==
    \/ Throttle
    \/ Sleep
    \/ StartThreadJob
    \/ ReceiveJob

\* the step of the statement that reports: of the steps of the script,
\* Report alone leads from "report" to "done"
ReportStep == pc = "report" /\ pc' = "done"

NextFallback ==
    \/ ParseNetwork
    \/ Preflight
    \/ SelectStrategy
    \/ EnsureThreadJob
    \/ LoopStep
    \/ Report
    \/ \E h \in Hosts : JobStart(h)
    \/ \E h \in Hosts : JobRun(h)

SpecFallback ==
    /\ InitFallback
    /\ [][NextFallback]_vars
    /\ WF_vars(LoopStep)
    /\ WF_pc(ReportStep)
    /\ WF_vars(\E h \in Hosts : JobStart(h))
    /\ WF_vars(\E h \in Hosts : JobRun(h))

(***************************************************************************)
(* Specification of the network argument: the scripts run on PowerShell 7  *)
(* with arguments of every kind.                                           *)
(***************************************************************************)
NetworkInputs ==
    { Net_10_30_6_0_24,
      Net_10_30_6_0,
      <<"1",".","2",".","3",".","4","/","8">>,
      Net_10_30_6_0 \o <<"\n">>,
      Net_10_30_6_0_24 \o <<"\n">>,
      Net_10_30_6_0 \o <<"\n", "\n">>,
      <<>>,
      <<"\n">>,
      Base_10_30_6,
      Base_10_30_6 \o <<".">>,
      Base_10_30_6 \o <<".", "a">>,
      <<"a">> \o Net_10_30_6_0,
      <<" ">> \o Net_10_30_6_0,
      Net_10_30_6_0 \o <<" ">>,
      Net_10_30_6_0 \o <<"/">>,
      Net_10_30_6_0 \o <<"/", "a">>,
      Net_10_30_6_0_24 \o <<"/", "1">>,
      Net_10_30_6_0 \o <<".", "1">>,
      <<"1","0",".",".","6",".","0">>,
      <<"/","2","4">> }

InitResolve ==
    /\ script \in {"v1", "v2"}
    /\ PSMajor = 7
    /\ toolOnPath \in BOOLEAN
    /\ hung = {}
    /\ InitAppState
    /\ InitTableIdle
    /\ tool = SweepTool
    /\ Network \in NetworkInputs
    /\ InitSweepState
    /\ InitParseIdle

NextResolve ==
    \/ ParseNetwork
    \/ Preflight
    \/ SelectStrategy
    \/ ForEachBind
    \/ ParallelDispatch
    \/ \E h \in Hosts : InlineTask(h)
    \/ \E h \in Hosts : HelperTask(h)
    \/ ParallelEnd
    \/ Report

SpecResolve == InitResolve /\ [][NextResolve]_vars

(***************************************************************************)
(* Specification of the parsing: one output of snmpget (or a call that     *)
(* threw) is given to the three copies of the probe code.                  *)
(***************************************************************************)
RECURSIVE SeqsUpTo(_, _)
SeqsUpTo(S, n) ==
    IF n = 0 THEN {<<>>}
    ELSE LET shorter == SeqsUpTo(S, n - 1)
         IN  shorter \cup {Append(t, x) : t \in shorter, x \in S}

\* outputs of two lines, longer than the outputs drawn from the lexemes
TwoLineOutputs ==
    { RawDeviceA \o <<LineBreak, "DeviceA">>,
      <<"DeviceA", LineBreak>> \o RawDeviceA,
      <<Marker, Blank, "DeviceA", LineBreak, Blank, "DeviceA">>,
      <<"DeviceA", Blank, LineBreak, Blank, "DeviceA">> }

RawOutputs == SeqsUpTo(Lexemes, MaxRawLen) \cup TwoLineOutputs

\* the address the copies are called with
ProbeIP == IPOf(Base_10_30_6, 5)

Returned(path, rec) == [path |-> path, value |-> rec]

InitParse ==
    /\ \/ /\ rawThrew = FALSE
          /\ rawOut \in RawOutputs
       \/ /\ rawThrew = TRUE
          /\ rawOut = <<>>
    /\ helperRet = Null
    /\ jobRet = Null
    /\ inlineRet = Null
    /\ script = "v2"
    /\ PSMajor = 7
    /\ toolOnPath = TRUE
    /\ hung = {}
    /\ InitAppState
    /\ InitTableIdle
    /\ tool = SweepTool
    /\ Network = Net_10_30_6_0_24
    /\ BaseNetwork = Base_10_30_6
    /\ pc = "probe"
    /\ err = "none"
    /\ preflightRuns = 0
    /\ installRuns = 0
    /\ strategy = "none"
    /\ i = 1
    /\ jobs = [h \in Hosts |-> "None"]
    /\ out = [h \in Hosts |-> Null]
    /\ submitted = [h \in Hosts |-> 0]
    /\ target = [h \in Hosts |-> Unset]
    /\ invoked = [h \in Hosts |-> 0]
    /\ argv = [h \in Hosts |-> Null]
    /\ outcome = [h \in Hosts |-> "none"]
    /\ Results = <<>>
    /\ emitted = "none"
    /\ table = <<>>

sweepVars == <<BaseNetwork, pc, err, preflightRuns, installRuns, strategy, i,
               Results, emitted, table>>

\* Invoke-SnmpCheck -IP ... called on the output
CallHelper ==
    /\ pc = "probe"
    /\ helperRet = Null
    /\ helperRet' = Returned(InvokeSnmpCheckPath(rawThrew, rawOut),
                             InvokeSnmpCheck(ProbeIP, rawThrew, rawOut))
    /\ UNCHANGED <<appVars, tableVars>>
    /\ UNCHANGED <<envVars, taskVars, sweepVars, rawOut, rawThrew, jobRet,
                   inlineRet>>

\* the script block of Start-ThreadJob run on the output
CallInJob ==
    /\ pc = "probe"
    /\ jobRet = Null
    /\ jobRet' = Returned(ThreadJobPath(rawThrew, rawOut),
                          ThreadJobProbe(ProbeIP, rawThrew, rawOut))
    /\ UNCHANGED <<appVars, tableVars>>
    /\ UNCHANGED <<envVars, taskVars, sweepVars, rawOut, rawThrew, helperRet,
                   inlineRet>>

\* the script block of v1 run on the output
CallInline ==
    /\ pc = "probe"
    /\ inlineRet = Null
    /\ inlineRet' = Returned(InlineProbePath(rawThrew, rawOut),
                             InlineProbe(ProbeIP, rawThrew, rawOut))
    /\ UNCHANGED <<appVars, tableVars>>
    /\ UNCHANGED <<envVars, taskVars, sweepVars, rawOut, rawThrew, helperRet,
                   jobRet>>

NextParse == CallHelper \/ CallInJob \/ CallInline

SpecParse == InitParse /\ [][NextParse]_vars

(***************************************************************************)
(* The dashboard application (frontend): App keeps the navigation state,   *)
(* Dashboard renders the response of /dashboard/stats/{folderId} for the   *)
(* last folder of the path.  A handler is an action, enabled when the view *)
(* that is rendered offers it.                                             *)
(***************************************************************************)
\* ids of the folders the endpoints return, and their names
FolderIds == {11, 12}
NameOf(id) == <<"folder", id>>

\* an item of a FolderGrid: a device, a version or a child folder
Item(id) == [id |-> id, name |-> NameOf(id)]

\* the devices returned by getDevices, the versions by getVersions
Devices == {Item(1), Item(2)}
Versions == {Item(id) : id \in FolderIds}

\* a child of a dashboard response: a sub-folder or a test
Child(id, type) == [id |-> id, name |-> NameOf(id), type |-> type]
Children == {Child(id, type) : id \in FolderIds, type \in {"folder", "test"}}

\* a test of failed_tests
FailedTest == [id |-> 99, name |-> NameOf(99), status |-> "Failed"]

\* the responses getDashboardStats can give: any list of children, with
\* and without failed tests
Responses ==
    [children : SeqsUpTo(Children, MaxChildren),
     failed_tests : {<<>>, <<FailedTest>>}]

\* Array.prototype.slice(0, end)
SliceTo(a, end) ==
    LET n == Len(a)
        e == IF end < 0 THEN (IF n + end < 0 THEN 0 ELSE n + end)
             ELSE (IF end > n THEN n ELSE end)
    IN  SubSeq(a, 1, e)

\* const isLeafNode = children.length > 0 && children[0].type === 'test'
isLeafNode(children) == Len(children) > 0 /\ children[1].type = "test"

\* {!isLeafNode && children.length > 0 && (<FolderGrid .../>)}
ShowsSubFolders(d) == ~isLeafNode(d.children) /\ Len(d.children) > 0

\* {isLeafNode && <TestTable tests={children} />}
ShowsTestTable(d) == isLeafNode(d.children)

\* version level taken to be the empty path
isVersionLevel_EmptyPath == Len(navigationPath) = 0

\* const isVersionLevel = navigationPath.length === 1
isVersionLevel == Len(navigationPath) = 1

\* {!isVersionLevel && failed_tests && failed_tests.length > 0 && (...)}
ShowsFailedTests(d) == ~isVersionLevel /\ Len(d.failed_tests) > 0

Event(handler, arg) == [handler |-> handler, arg |-> arg]

\* the frame of the handlers of the App
AppFrame == UNCHANGED <<envVars, parseVars, taskVars, sweepVars, tableVars>>

\* FolderGrid of the devices: onSelect={handleSelectDevice}
handleSelectDevice(device) ==
    /\ viewMode = VIEW_DEVICES
    /\ selectedDevice' = device
    /\ viewMode' = VIEW_VERSIONS
    /\ navigationPath' = <<>>
    /\ data' = Null
    /\ event' = Event("handleSelectDevice", device.id)
    /\ before' = Null
    /\ AppFrame

\* FolderGrid of the versions: onSelect={handleSelectVersion}
handleSelectVersion(version) ==
    /\ viewMode = VIEW_VERSIONS
    /\ navigationPath' = <<[id |-> version.id, name |-> version.name]>>
    /\ viewMode' = VIEW_DASHBOARD
    /\ data' = Null
    /\ event' = Event("handleSelectVersion", version.id)
    /\ UNCHANGED selectedDevice
    /\ before' = Null
    /\ AppFrame

\* useQuery(['dashboard', folderId]) of the Dashboard gives its data
DashboardLoaded ==
    /\ viewMode = VIEW_DASHBOARD
    /\ navigationPath # <<>>
    /\ data = Null
    /\ data' \in Responses
    /\ event' = Event("getDashboardStats", navigationPath[Len(navigationPath)].id)
    /\ UNCHANGED <<viewMode, selectedDevice, navigationPath>>
    /\ UNCHANGED before
    /\ AppFrame

\* the handler putting the new folder in front of the path
handleDrillDown_Prepends(folderId, folderName) ==
    /\ viewMode = VIEW_DASHBOARD
    /\ data # Null
    /\ ShowsSubFolders(data)
    /\ \E k \in 1..Len(data.children) :
          data.children[k].id = folderId /\ data.children[k].name = folderName
    /\ Len(navigationPath) < MaxDepth
    /\ navigationPath' =
          <<[id |-> folderId, name |-> folderName]>> \o navigationPath
    /\ data' = Null
    /\ event' = Event("handleDrillDown", folderId)
    /\ UNCHANGED <<viewMode, selectedDevice>>
    /\ before' = [viewMode |-> viewMode, selectedDevice |-> selectedDevice,
                  navigationPath |-> navigationPath]
    /\ AppFrame

\* a card of the sub-folder grid: onSelect={(child) => onDrillDown(child.id,
\* child.name)}; the path is capped at MaxDepth folders
handleDrillDown(folderId, folderName) ==
    /\ viewMode = VIEW_DASHBOARD
    /\ data # Null
    /\ ShowsSubFolders(data)
    /\ \E k \in 1..Len(data.children) :
          data.children[k].id = folderId /\ data.children[k].name = folderName
    /\ Len(navigationPath) < MaxDepth
    /\ navigationPath' =
          navigationPath \o <<[id |-> folderId, name |-> folderName]>>
    /\ data' = Null
    /\ event' = Event("handleDrillDown", folderId)
    /\ UNCHANGED <<viewMode, selectedDevice>>
    /\ before' = [viewMode |-> viewMode, selectedDevice |-> selectedDevice,
                  navigationPath |-> navigationPath]
    /\ AppFrame

\* the handler with slice(0, index): the entry clicked is dropped as well
handleBreadcrumbClick_SliceToIndex(index) ==
    /\ viewMode = VIEW_DASHBOARD
    /\ index \in 0..(Len(navigationPath) - 1)
    /\ index # Len(navigationPath) - 1
    /\ navigationPath' = SliceTo(navigationPath, index)
    /\ data' = Null
    /\ event' = Event("handleBreadcrumbClick", index)
    /\ UNCHANGED <<viewMode, selectedDevice>>
    /\ UNCHANGED before
    /\ AppFrame

\* a breadcrumb button: onClick={() => handleBreadcrumbClick(index)},
\* disabled={index === navigationPath.length - 1}
handleBreadcrumbClick(index) ==
    /\ viewMode = VIEW_DASHBOARD
    /\ index \in 0..(Len(navigationPath) - 1)
    /\ index # Len(navigationPath) - 1
    /\ navigationPath' = SliceTo(navigationPath, index + 1)
    /\ data' = Null
    /\ event' = Event("handleBreadcrumbClick", index)
    /\ UNCHANGED <<viewMode, selectedDevice>>
    /\ UNCHANGED before
    /\ AppFrame

\* the handler without setSelectedDevice(null)
handleBackToDevices_KeepsDevice ==
    /\ navigationPath' = <<>>
    /\ viewMode' = VIEW_DEVICES
    /\ data' = Null
    /\ event' = Event("handleBackToDevices", 0)
    /\ before' = Null
    /\ UNCHANGED selectedDevice
    /\ AppFrame

\* the logo of the header and "Back to Devices" of the versions
handleBackToDevices ==
    /\ selectedDevice' = Null
    /\ navigationPath' = <<>>
    /\ viewMode' = VIEW_DEVICES
    /\ data' = Null
    /\ event' = Event("handleBackToDevices", 0)
    /\ before' = Null
    /\ AppFrame

\* the handler clearing the device as handleBackToDevices does
handleBackToVersions_ClearsDevice ==
    /\ viewMode = VIEW_DASHBOARD
    /\ navigationPath' = <<>>
    /\ viewMode' = VIEW_VERSIONS
    /\ data' = Null
    /\ event' = Event("handleBackToVersions", 0)
    /\ selectedDevice' = Null
    /\ before' = Null
    /\ AppFrame

\* the first button of the breadcrumbs, labelled with the device
handleBackToVersions ==
    /\ viewMode = VIEW_DASHBOARD
    /\ navigationPath' = <<>>
    /\ viewMode' = VIEW_VERSIONS
    /\ data' = Null
    /\ event' = Event("handleBackToVersions", 0)
    /\ UNCHANGED selectedDevice
    /\ before' = Null
    /\ AppFrame

InitApp ==
    /\ script = "v2"
    /\ PSMajor = 7
    /\ toolOnPath = TRUE
    /\ tool = SweepTool
    /\ hung = {}
    /\ Network = Net_10_30_6_0_24
    /\ InitSweepState
    /\ InitParseIdle
    /\ InitAppState
    /\ InitTableIdle

NextApp ==
    \/ \E device \in Devices : handleSelectDevice(device)
    \/ \E version \in Versions : handleSelectVersion(version)
    \/ DashboardLoaded
    \/ \E child \in Children : handleDrillDown(child.id, child.name)
    \/ \E index \in 0..MaxDepth : handleBreadcrumbClick(index)
    \/ handleBackToDevices
    \/ handleBackToVersions

SpecApp == InitApp /\ [][NextApp]_vars

(***************************************************************************)
(* The test table (TestTable): the rows are the tests prop sorted by       *)
(* sortConfig at every render; the headers "Test Name" and "Status" call   *)
(* handleSort.  Array.prototype.sort is the engine's: an insertion sort    *)
(* with binary search after a first run (V8, short arrays) or a merge      *)
(* sort (SpiderMonkey, JavaScriptCore); both consult the comparator of the *)
(* component.  A field that is undefined, null or '' is the empty string.  *)
(***************************************************************************)
\* the values a field of a test takes: none, "10", "2"
FieldValues == { <<>>, <<"1", "0">>, <<"2">> }

\* the columns whose header calls handleSort
SortKeys == {"name", "status"}

\* the tests prop: up to MaxTests tests, the k-th with id k
TestLists ==
    UNION { [1..n -> [name : FieldValues, status : FieldValues]] :
                n \in 0..MaxTests }

WithIds(list) ==
    [k \in 1..Len(list) |->
        [id |-> k, name |-> list[k].name, status |-> list[k].status]]

\* !a[sortConfig.key]
Falsy(v) == v = <<>>

\* the comparator without its two tests for a missing value
compare_NoMissingTest(a, b, cfg) ==
    IF StrCompare(a[cfg.key], b[cfg.key]) = -1
    THEN (IF cfg.direction = "asc" THEN -1 ELSE 1)
    ELSE IF StrCompare(a[cfg.key], b[cfg.key]) = 1
         THEN (IF cfg.direction = "asc" THEN 1 ELSE -1)
    ELSE 0

\* the comparator handed to sort
compare(a, b, cfg) ==
    IF Falsy(a[cfg.key]) THEN 1
    ELSE IF Falsy(b[cfg.key]) THEN -1
    ELSE IF StrCompare(a[cfg.key], b[cfg.key]) = -1
         THEN (IF cfg.direction = "asc" THEN -1 ELSE 1)
    ELSE IF StrCompare(a[cfg.key], b[cfg.key]) = 1
         THEN (IF cfg.direction = "asc" THEN 1 ELSE -1)
    ELSE 0

Reverse(a) == [k \in 1..Len(a) |-> a[Len(a) + 1 - k]]

\* length of the run that starts the array: strictly descending when the
\* second element is below the first, ascending otherwise
RECURSIVE RunLength(_, _, _, _)
RunLength(a, k, descending, cfg) ==
    IF k >= Len(a) THEN Len(a)
    ELSE IF descending = (compare(a[k + 1], a[k], cfg) < 0)
         THEN RunLength(a, k + 1, descending, cfg)
    ELSE k

\* the place of pivot in the sorted prefix a[1..n], by binary search
RECURSIVE InsertionPoint(_, _, _, _, _)
InsertionPoint(a, pivot, left, right, cfg) ==
    IF left >= right THEN left
    ELSE LET mid == left + ((right - left) \div 2)
         IN  IF compare(pivot, a[mid + 1], cfg) < 0
             THEN InsertionPoint(a, pivot, left, mid, cfg)
             ELSE InsertionPoint(a, pivot, mid + 1, right, cfg)

\* the elements from start on inserted one by one into the sorted prefix
RECURSIVE InsertFrom(_, _, _)
InsertFrom(a, start, cfg) ==
    IF start > Len(a) THEN a
    ELSE LET pivot == a[start]
             at == InsertionPoint(a, pivot, 0, start - 1, cfg)
         IN  InsertFrom(SubSeq(a, 1, at) \o <<pivot>> \o
                            SubSeq(a, at + 1, start - 1) \o
                            SubSeq(a, start + 1, Len(a)),
                        start + 1, cfg)

BinaryInsertionSort(a, cfg) ==
    IF Len(a) < 2 THEN a
    ELSE LET descending == compare(a[2], a[1], cfg) < 0
             n == RunLength(a, 1, descending, cfg)
             run == IF descending THEN Reverse(SubSeq(a, 1, n))
                    ELSE SubSeq(a, 1, n)
         IN  InsertFrom(run \o SubSeq(a, n + 1, Len(a)), n + 1, cfg)

RECURSIVE Merge(_, _, _)
Merge(l, r, cfg) ==
    IF l = <<>> THEN r
    ELSE IF r = <<>> THEN l
    ELSE IF compare(Head(r), Head(l), cfg) < 0
         THEN <<Head(r)>> \o Merge(l, Tail(r), cfg)
    ELSE <<Head(l)>> \o Merge(Tail(l), r, cfg)

RECURSIVE MergeSort(_, _)
MergeSort(a, cfg) ==
    IF Len(a) < 2 THEN a
    ELSE LET h == Len(a) \div 2
         IN  Merge(MergeSort(SubSeq(a, 1, h), cfg),
                   MergeSort(SubSeq(a, h + 1, Len(a)), cfg), cfg)

\* const sortedTests = [...tests].sort(...): what an engine can give
SortOutcomes(list, cfg) ==
    { BinaryInsertionSort(list, cfg), MergeSort(list, cfg) }

\* the frame of the steps of the table
TableFrame == UNCHANGED <<envVars, parseVars, taskVars, sweepVars, appVars>>

\* handleSort that flips the direction at every click, whatever the column
handleSort_AlwaysFlips(key) ==
    /\ LET direction == IF sortConfig.direction = "asc" THEN "desc"
                        ELSE "asc"
           cfg == [key |-> key, direction |-> direction]
       IN  /\ sortConfig' = cfg
           /\ sortedTests' \in SortOutcomes(tests, cfg)
    /\ clicked' = key
    /\ UNCHANGED tests
    /\ TableFrame

\* a click on a sortable header: handleSort(key), then the render with the
\* new sortConfig
handleSort(key) ==
    /\ LET direction ==
               IF sortConfig.key = key /\ sortConfig.direction = "asc"
               THEN "desc" ELSE "asc"
           cfg == [key |-> key, direction |-> direction]
       IN  /\ sortConfig' = cfg
           /\ sortedTests' \in SortOutcomes(tests, cfg)
    /\ clicked' = key
    /\ UNCHANGED tests
    /\ TableFrame

\* the table is mounted with its tests and renders them
InitTable ==
    /\ script = "v2"
    /\ PSMajor = 7
    /\ toolOnPath = TRUE
    /\ tool = SweepTool
    /\ hung = {}
    /\ Network = Net_10_30_6_0_24
    /\ InitSweepState
    /\ InitParseIdle
    /\ InitAppState
    /\ tests \in {WithIds(list) : list \in TestLists}
    /\ sortConfig = InitSortConfig
    /\ sortedTests \in SortOutcomes(tests, InitSortConfig)
    /\ clicked = "none"

NextTable == \E key \in SortKeys : handleSort(key)

SpecTable == InitTable /\ [][NextTable]_vars

(***************************************************************************)
(* Properties.                                                             *)
(***************************************************************************)
\* the sweep ran under one of the strategies and has returned
SweepReturned == strategy # "none" /\ pc \in {"report", "done"}

\* the host whose address is ip
HostOf(ip) == CHOOSE h \in Hosts : IPOf(BaseNetwork, h) = ip

\* the rows of the table that carry the address of host h
RowsOf(h) == {k \in 1..Len(table) : table[k].IP = IPOf(BaseNetwork, h)}

\* C1: in every state of a sweep, under either strategy, the number of
\* probes handed out and not yet completed, whatever their job state, is
\* at most the cap.
C1_InFlightWithinCap == InFlight <= MaxThreads

C3_OneOutcomePerTarget ==
    SweepReturned =>
        /\ Len(Results) = Cardinality(Hosts)
        /\ \A h \in Hosts :
              Cardinality({k \in 1..Len(Results) :
                              /\ Results[k] # Null
                              /\ Results[k].IP = target[h]}) = 1

\* C3 as amended: the sweep returns exactly one outcome, tagged with its
\* originating address, for each target whose probe gave a value, and
\* nothing for a target whose probe gave no response; no duplicates, no
\* foreign address.
C3_OneRecordPerValue ==
    SweepReturned =>
        /\ \A k \in 1..Len(Results) :
              /\ Results[k] # Null
              /\ \E h \in Hosts : /\ target[h] = Results[k].IP
                                  /\ outcome[h] = "Value"
        /\ \A h \in Hosts :
              Cardinality({k \in 1..Len(Results) : Results[k].IP = target[h]})
                 = IF outcome[h] = "Value" THEN 1 ELSE 0

C3_Witness ==
    /\ pc = "done"
    /\ strategy = "threadjob"
    /\ Len(Results) = 2
    /\ \E h \in Hosts : outcome[h] = "NoResponse"

\* C4: the rows of the report are in ascending order of the numeric value
\* of the last octet of their address (stated for v2, the later revision;
\* v1 sorts the same way).
C4_ReportInNumericOrder ==
    (script = "v2" /\ emitted = "table") =>
        \A a, b \in 1..Len(table) :
            a < b => HostOf(table[a].IP) < HostOf(table[b].IP)

\* C5: end to end, when snmpget was run for every host and answered
\* DeviceA for .5, DeviceB for a host with a greater octet and a negative
\* marker for the others, the report is exactly the two records, .5 first
\* (stated for v2, the later revision).
C5_EndToEndReport ==
    (script = "v2" /\ pc = "done" /\ \A h \in Hosts : invoked[h] = 1) =>
        /\ emitted = "table"
        /\ table = << [IP |-> IPOf(Base_10_30_6, 5),
                       ProductName |-> <<"DeviceA">>],
                      [IP |-> IPOf(Base_10_30_6, DeviceBHost),
                       ProductName |-> <<"DeviceB">>] >>

\* C6: for an argument that is not of the shape A.B.C.D or A.B.C.D/mask
\* the script never gets past the parsing: it fails with the format error,
\* no probe is handed out, no preflight or installation is run, nothing is
\* reported (stated for v2, the later revision; v1 parses the same way).
C6_InvalidSpecFailsFirst ==
    (script = "v2" /\ ~DottedQuadShape(Network)) =>
        /\ pc \in {"parse", "failed"}
        /\ pc = "failed" => err = "InvalidSpec"
        /\ \A h \in Hosts : submitted[h] = 0
        /\ preflightRuns = 0
        /\ installRuns = 0
        /\ emitted = "none"

\* C7: when snmpget is not on the search path no probe is handed out and
\* nothing is reported; the preflight runs at most once and has run before
\* any probe is handed out.
C7_PreflightBeforeProbes ==
    /\ preflightRuns <= 1
    /\ ~toolOnPath => /\ \A h \in Hosts : submitted[h] = 0
                      /\ emitted = "none"
    /\ (\E h \in Hosts : submitted[h] > 0) => preflightRuns = 1

\* C8: an output that is empty or has "Timeout" or "No Such Object"
\* anywhere in it gives no record and does not end in one of the branches
\* that compute the value, in Invoke-SnmpCheck and in the copy inside the
\* job, also when the output has a STRING: marker.
C8_NegativeNeverExtracted ==
    (/\ ~rawThrew
     /\ \/ rawOut = <<>>
        \/ \E p \in 1..Len(rawOut) : rawOut[p] \in {"Timeout", "No Such Object"})
    => \A ret \in {helperRet, jobRet} :
          ret # Null => /\ ret.path \in {"empty", "negative"}
                        /\ ret.value = Null

C8_Witness ==
    /\ rawOut = <<Marker, Quote, "Timeout", Quote>>
    /\ helperRet # Null
    /\ jobRet # Null

\* C9: once the report is out, the table has a row for a host exactly when
\* the probe of that host gave a value: one row, which is the record that
\* probe emitted, with the address of the host and the value extracted; a
\* host without a value has no row and no row belongs to another address.
C9_RowIffValue ==
    emitted # "none" =>
        /\ \A h \in Hosts :
              Cardinality(RowsOf(h)) = IF outcome[h] = "Value" THEN 1 ELSE 0
        /\ \A k \in 1..Len(table) :
              \E h \in Hosts : /\ table[k] = out[h]
                               /\ outcome[h] = "Value"
                               /\ table[k].IP = IPOf(BaseNetwork, h)
                               /\ table[k].ProductName = <<"DeviceA">>

C9_Witness ==
    /\ emitted = "table"
    /\ strategy = "threadjob"
    /\ Len(table) = 2
    /\ \E h \in Hosts : outcome[h] = "NoResponse"

\* C10: a finished scan shows "No snmp devices" exactly when no record
\* survives the filter; with one value or more it shows the table, which
\* then has a row, and never the empty indication.
C10_EmptyIffNoRecord ==
    pc = "done" =>
        /\ emitted \in {"table", "empty"}
        /\ emitted = "empty" <=> WhereTruthy(Results) = <<>>
        /\ emitted = "empty" => table = <<>>
        /\ (\E h \in Hosts : outcome[h] = "Value") =>
              /\ emitted = "table"
              /\ Len(table) >= 1

C10_Witness ==
    /\ pc = "done"
    /\ emitted = "table"
    /\ Len(table) = 1

\* the record a host that answers DeviceA gives
DeviceARecord(h) == [IP |-> IPOf(Base_10_30_6, h), ProductName |-> <<"DeviceA">>]

\* the rows of the table that do not carry the address of host h
RECURSIVE RowsWithout(_, _)
RowsWithout(rows, h) ==
    IF rows = <<>> THEN <<>>
    ELSE IF Head(rows).IP = IPOf(Base_10_30_6, h)
         THEN RowsWithout(Tail(rows), h)
         ELSE <<Head(rows)>> \o RowsWithout(Tail(rows), h)

\* C11: a probe that fails (snmpget not launched, nothing printed, a time
\* out) gives no response for its own host and nothing else: the scan is
\* never aborted once probes are handed out, the hosts that answer keep
\* their value and their record whatever happens to .3, .4 and .5, and the
\* rows of the report for the hosts other than .5 are the same whether .5
\* answered or failed.
C11_FailureIsolated ==
    /\ (\E h \in Hosts : submitted[h] > 0) => pc # "failed" /\ err = "none"
    /\ \A h \in Hosts :
          (jobs[h] = "Completed" /\ invoked[h] = 1) =>
              /\ outcome[h] = "NoResponse" => out[h] = Null
              /\ h \in {1, 2} => /\ outcome[h] = "Value"
                                 /\ out[h] = DeviceARecord(h)
              /\ h \notin {1, 2, 5} => outcome[h] = "NoResponse"
    /\ (pc = "done" /\ \A h \in Hosts : invoked[h] = 1) =>
          /\ emitted = "table"
          /\ RowsWithout(table, 5) = <<DeviceARecord(1), DeviceARecord(2)>>

C11_Witness ==
    /\ pc = "done"
    /\ strategy = "threadjob"
    /\ outcome[3] = "NoResponse"
    /\ outcome[5] = "NoResponse"
    /\ table = <<DeviceARecord(1), DeviceARecord(2)>>

\* the text of s before its k-th dot (all of s when it has fewer dots)
RECURSIVE BeforeDot(_, _)
BeforeDot(s, k) ==
    IF s = <<>> THEN <<>>
    ELSE IF Head(s) = "." THEN IF k = 1 THEN <<>>
                               ELSE <<".">> \o BeforeDot(Tail(s), k - 1)
    ELSE <<Head(s)>> \o BeforeDot(Tail(s), k)

\* the addresses A.B.C.1 .. A.B.C.LastHost of a network argument A.B.C.D[/m]
HostRange(s) == {BeforeDot(s, 3) \o <<".">> \o Digits(n) : n \in Hosts}

QuotedSegmentAt(raw, m, q, e) ==
    /\ m < q
    /\ q < e
    /\ raw[m] = Marker
    /\ \A r \in (m + 1)..(q - 1) : raw[r] = Blank
    /\ raw[q] = Quote
    /\ raw[e] = Quote
    /\ \A r \in q..e : raw[r] # LineBreak

HasQuotedSegment(raw) ==
    \E m, q, e \in 1..Len(raw) : QuotedSegmentAt(raw, m, q, e)

CountOf(raw, x) == Cardinality({p \in 1..Len(raw) : raw[p] = x})

\* the text between the two quotes of an output that has two
QuotedContent(raw) ==
    LET q == CHOOSE q \in 1..Len(raw) :
                 raw[q] = Quote /\ \E e \in (q + 1)..Len(raw) : raw[e] = Quote
        e == CHOOSE e \in (q + 1)..Len(raw) : raw[e] = Quote
    IN  SubSeq(raw, q + 1, e - 1)

\* a marker at m, blanks only up to a lexeme at g that is no white space
UnquotedTokenAt(raw, m, g) ==
    /\ m < g
    /\ raw[m] = Marker
    /\ \A r \in (m + 1)..(g - 1) : raw[r] = Blank
    /\ raw[g] \notin {Blank, LineBreak}

HasUnquotedToken(raw) ==
    \E m, g \in 1..Len(raw) : UnquotedTokenAt(raw, m, g)

\* the lexemes from g up to the next white space
RECURSIVE UpToWhiteSpace(_, _)
UpToWhiteSpace(raw, g) ==
    IF g > Len(raw) \/ raw[g] \in {Blank, LineBreak} THEN <<>>
    ELSE <<raw[g]>> \o UpToWhiteSpace(raw, g + 1)

\* the token after the marker of an output that has one marker
TokenAfterMarker(raw) ==
    LET m == CHOOSE m \in 1..Len(raw) : raw[m] = Marker
        g == CHOOSE g \in 1..Len(raw) : UnquotedTokenAt(raw, m, g)
    IN  UpToWhiteSpace(raw, g)

\* s without the quotes at its ends, when it has no quote elsewhere
QuotesOnlyAtEnds(s) == CountOf(TrimChar(s, Quote), Quote) = 0

\* C13: when Invoke-SnmpCheck or the copy inside the job extracts a value,
\* an output with a quoted segment after a STRING: marker goes through the
\* quoted rule and gives the quoted text trimmed; an output without one and
\* with a token after the marker goes through the unquoted rule and gives
\* the token up to the next white space without its quotes; the unquoted
\* rule is not applied to an output with a quoted segment.
C13_ExtractionPriority ==
    \A ret \in {helperRet, jobRet} :
        (ret # Null /\ ret.value # Null) =>
            /\ HasQuotedSegment(rawOut) =>
                  /\ ret.path = "quoted"
                  /\ CountOf(rawOut, Quote) = 2 =>
                        ret.value.ProductName = Trim(QuotedContent(rawOut))
            /\ (~HasQuotedSegment(rawOut) /\ HasUnquotedToken(rawOut)) =>
                  /\ ret.path = "unquoted"
                  /\ (/\ CountOf(rawOut, Marker) = 1
                      /\ QuotesOnlyAtEnds(TokenAfterMarker(rawOut))) =>
                        ret.value.ProductName =
                            TrimChar(TokenAfterMarker(rawOut), Quote)

\* a value that is one string: neither $null nor an array
IsString(v) == CountOf(v, "$null") = 0 /\ CountOf(v, "@(") = 0

\* C14: whenever Invoke-SnmpCheck computes a value for an output, the value
\* is a string (the extraction did not fail and did not give something
\* else), and for an output without a STRING: marker it is the whole text
\* of the output, trimmed.
C14_ExtractionTotal ==
    (helperRet # Null /\ helperRet.value # Null) =>
        /\ IsString(helperRet.value.ProductName)
        /\ CountOf(rawOut, Marker) = 0 =>
              helperRet.value.ProductName = Trim(rawOut)

\* a task was created and its probe has not given its outcome yet
Outstanding(h) == submitted[h] > 0 /\ outcome[h] = "none"

\* once the script is at its report no record joins or leaves the result
\* set and no task changes
ResultsFrozen ==
    pc \in {"report", "done"} =>
        /\ Results' = Results
        /\ out' = out
        /\ jobs' = jobs
        /\ outcome' = outcome

\* what was emitted stays as emitted
ReportFrozen == emitted # "none" => (emitted' = emitted /\ table' = table)

\* C15: the report, or the empty indication, is put together and emitted
\* only when no probe is outstanding: from the moment the script reaches its
\* report every task that was created is completed and has its outcome; from
\* then on no record joins or leaves the result set and no task changes, and
\* what was emitted stays as emitted.
C15_ReportAfterAllProbes ==
    /\ []((pc \in {"report", "done"} \/ emitted # "none") =>
            (AllCompleted /\ \A h \in Hosts : ~Outstanding(h)))
    /\ [][ResultsFrozen]_vars
    /\ [][ReportFrozen]_vars

C15_Witness ==
    /\ pc = "done"
    /\ emitted = "table"
    /\ strategy = "threadjob"
    /\ \A h \in Hosts : jobs[h] = "Completed" /\ ~Outstanding(h)
    /\ Len(Results) = 3

\* the strategy changes only from unset, while no probe has been handed out
ChosenOnce ==
    strategy' # strategy =>
        (strategy = "none" /\ \A h \in Hosts : submitted[h] = 0)

\* a probe is handed out under the strategy chosen and by its mechanism:
\* a script block of ForEach-Object -Parallel, running at once, or a job of
\* the throttle loop, queued
DispatchedByStrategy ==
    \A h \in Hosts :
        submitted'[h] # submitted[h] =>
            /\ strategy' = strategy
            /\ \/ (strategy = "parallel" /\ pc = "parallel"
                     /\ jobs'[h] = "Running")
               \/ (strategy = "threadjob" /\ pc = "throttle"
                     /\ jobs'[h] = "NotStarted")

\* C16: the strategy is chosen once, before the first probe is handed out,
\* and does not change afterwards; every probe of the scan is handed out
\* under the strategy chosen and by its mechanism.
C16_StrategyChosenOnce ==
    /\ [][ChosenOnce]_vars
    /\ [][DispatchedByStrategy]_vars
    /\ []((\E h \in Hosts : submitted[h] > 0) => strategy # "none")

C16_Witness ==
    /\ pc = "done"
    /\ strategy = "parallel"
    /\ script = "v1"
    /\ \A h \in Hosts : submitted[h] = 1 /\ invoked[h] = 1

\* the session has no -Parallel and the script no other way to run the
\* probes: v1 has none at all, v2 had to install ThreadJob and could not
NoStrategyAvailable ==
    /\ PSMajor < 7
    /\ \/ script = "v1" /\ pc \notin {"parse", "foreach"}
       \/ script = "v2" /\ installRuns > 0 /\ strategy = "none"

\* C17: without -Parallel and without a fallback the scan ends with an
\* error thrown, no probe was handed out or run, and nothing is reported.
C17_NoStrategyIsFatal ==
    NoStrategyAvailable =>
        /\ pc = "failed"
        /\ err # "none"
        /\ emitted = "none"
        /\ \A h \in Hosts : submitted[h] = 0 /\ invoked[h] = 0

\* a target whose probe can complete and has not given its outcome yet
Pending(h) == h \notin hung /\ outcome[h] = "none"

\* the sweep is under way: targets are being handed out or waited for
SweepRunning ==
    strategy # "none" /\ pc \in {"parallel", "throttle", "sleep", "receive"}

\* a target can be handed out, a queued job can start, or a probe that can
\* complete is running
ProbeStepPossible ==
    \/ pc = "parallel" /\ i <= LastHost /\ RunningCount < MaxThreads
    \/ pc \in {"throttle", "sleep"} /\ RunningCount < MaxThreads
    \/ \E h \in Hosts : jobs[h] = "NotStarted"
    \/ \E h \in Hosts \ hung : jobs[h] = "Running"

\* a task only moves forward: queued, running, completed with its outcome
NoCancellation ==
    \A h \in Hosts :
        /\ jobs[h] = "NotStarted" => jobs'[h] \in {"NotStarted", "Running"}
        /\ jobs[h] = "Running" => jobs'[h] \in {"Running", "Completed"}
        /\ jobs[h] = "Completed" => jobs'[h] = "Completed"
        /\ (jobs[h] # "Completed" /\ jobs'[h] = "Completed") =>
              outcome'[h] # "none"

\* C18: whatever the set of hosts whose probes never complete, no task is
\* cancelled, and while a sweep has a target whose probe can complete and
\* has no outcome yet, the sweep is not stuck behind the hung probes: a
\* target can be handed out, a queued job started or a running probe
\* completed (so that every remaining target is dispatched and gets its
\* outcome in the end).
C18_HungDoesNotBlock ==
    /\ []((SweepRunning /\ \E h \in Hosts : Pending(h)) => ProbeStepPossible)
    /\ [][NoCancellation]_vars

\* the step of a click on the breadcrumb at index idx
BreadcrumbClicked(idx) ==
    event' # event /\ event' = Event("handleBreadcrumbClick", idx)

\* what claim C19 says of such a step
BreadcrumbGoesUp ==
    \A idx \in 0..MaxDepth :
        BreadcrumbClicked(idx) =>
            /\ viewMode = VIEW_DASHBOARD
            /\ idx < Len(navigationPath) - 1
            /\ Len(navigationPath') = idx + 1
            /\ \A k \in 1..(idx + 1) : navigationPath'[k] = navigationPath[k]
            /\ Len(navigationPath') < Len(navigationPath)
            /\ navigationPath' # <<>>
            /\ viewMode' = viewMode
            /\ selectedDevice' = selectedDevice

\* C19: a click on the breadcrumb at index i, in the dashboard view, leaves
\* navigationPath with exactly its first i+1 entries, in their order, and
\* viewMode and selectedDevice as they were; the breadcrumb of the last
\* folder cannot be clicked, so the click shortens the path and never
\* empties it.
C19_BreadcrumbGoesUp == [][BreadcrumbGoesUp]_vars

C19_Witness ==
    /\ event = Event("handleBreadcrumbClick", 1)
    /\ viewMode = VIEW_DASHBOARD
    /\ navigationPath = <<Item(11), Item(12)>>

\* every child of the response has the type given
ConsistsOf(children, type) ==
    \A k \in 1..Len(children) : children[k].type = type

\* C20: for the response the Dashboard renders, the sub-folder grid and the
\* test table are never both shown; the test table is shown exactly when
\* children is non-empty and all its items are tests, the sub-folder grid
\* exactly when children is non-empty and all its items are folders, and
\* neither when children is empty.
C20_GridOrTable ==
    (viewMode = VIEW_DASHBOARD /\ data # Null) =>
        /\ ~(ShowsSubFolders(data) /\ ShowsTestTable(data))
        /\ ShowsTestTable(data) <=>
              (data.children # <<>> /\ ConsistsOf(data.children, "test"))
        /\ ShowsSubFolders(data) <=>
              (data.children # <<>> /\ ConsistsOf(data.children, "folder"))
        /\ data.children = <<>> =>
              (~ShowsSubFolders(data) /\ ~ShowsTestTable(data))

\* the step of a click on a header of the table
HeaderClicked == sortConfig' # sortConfig \/ clicked' # clicked

\* what claim C21 says of such a step
SortFollowsClick ==
    HeaderClicked =>
        /\ clicked' \in SortKeys
        /\ sortConfig'.key = clicked'
        /\ sortConfig'.direction =
              IF sortConfig.key = clicked' /\ sortConfig.direction = "asc"
              THEN "desc" ELSE "asc"

\* C21: the table starts sorted by name, ascending; after any clicks the
\* sort key is the column clicked last; a click on the column that is
\* sorted ascending gives descending, any other click gives ascending.
C21_SortFollowsClicks ==
    /\ [](IF clicked = "none" THEN sortConfig = InitSortConfig
          ELSE sortConfig.key = clicked)
    /\ [][SortFollowsClick]_vars

C21_Witness ==
    /\ clicked = "status"
    /\ sortConfig = [key |-> "status", direction |-> "desc"]
    /\ Len(tests) = 2

\* the value of the sort key in a row
KeyOf(row) == row[sortConfig.key]

\* C30: the rows rendered are a permutation of the tests prop, which no
\* step changes; the rows with a value for the sort key are in ascending
\* or descending order of that value, as sortConfig says, and every row
\* without a value comes after every row with one, in both directions.
C30_RowsSorted ==
    /\ []( /\ Len(sortedTests) = Len(tests)
           /\ \A k \in 1..Len(tests) :
                 \E m \in 1..Len(sortedTests) : sortedTests[m] = tests[k]
           /\ \A a, b \in 1..Len(sortedTests) :
                 a < b =>
                    /\ ~Falsy(KeyOf(sortedTests[b])) =>
                          ~Falsy(KeyOf(sortedTests[a]))
                    /\ (/\ ~Falsy(KeyOf(sortedTests[a]))
                        /\ ~Falsy(KeyOf(sortedTests[b]))) =>
                          StrCompare(KeyOf(sortedTests[a]),
                                     KeyOf(sortedTests[b]))
                            \in (IF sortConfig.direction = "asc"
                                 THEN {-1, 0} ELSE {0, 1}) )
    /\ [][tests' = tests]_vars

C30_Witness ==
    /\ sortConfig = [key |-> "status", direction |-> "desc"]
    /\ Len(tests) = 3
    /\ Falsy(tests[1].status)
    /\ tests[2].status = <<"1", "0">>
    /\ tests[3].status = <<"2">>
    /\ sortedTests = <<tests[3], tests[2], tests[1]>>

\* C26: in every state the handlers offered lead to, the dashboard view has
\* a folder on the path and a device, the versions view a device and an
\* empty path, the devices view no device and an empty path.
C26_NavigationInvariant ==
    /\ viewMode \in {VIEW_DEVICES, VIEW_VERSIONS, VIEW_DASHBOARD}
    /\ viewMode = VIEW_DASHBOARD =>
          (navigationPath # <<>> /\ selectedDevice # Null)
    /\ viewMode = VIEW_VERSIONS =>
          (selectedDevice # Null /\ navigationPath = <<>>)
    /\ viewMode = VIEW_DEVICES =>
          (selectedDevice = Null /\ navigationPath = <<>>)

C26_Witness ==
    /\ viewMode = VIEW_DASHBOARD
    /\ Len(navigationPath) = MaxDepth
    /\ selectedDevice = Item(2)
    /\ event.handler = "getDashboardStats"

\* the step of a drill-down into the folder with the id given
DrilledDown(id) == event' # event /\ event' = Event("handleDrillDown", id)

\* a drill-down appends one entry and keeps the others
DrillDownAppends ==
    \A id \in FolderIds :
        DrilledDown(id) =>
            /\ Len(navigationPath') = Len(navigationPath) + 1
            /\ SubSeq(navigationPath', 1, Len(navigationPath)) = navigationPath
            /\ navigationPath'[Len(navigationPath')] = Item(id)
            /\ viewMode' = viewMode
            /\ selectedDevice' = selectedDevice

\* the breadcrumb at index n-1 was clicked after a drill-down from a path
\* of length n, no other handler in between
CameBack ==
    /\ before # Null
    /\ event = Event("handleBreadcrumbClick", Len(before.navigationPath) - 1)

\* C27: handleDrillDown appends exactly one {id, name} entry and keeps the
\* entries there were; after a drill-down from a path of length n and a
\* click on the breadcrumb at index n-1, navigationPath, viewMode and
\* selectedDevice are what they were before the drill-down.
C27_DrillDownBreadcrumbInverse ==
    /\ [][DrillDownAppends]_vars
    /\ [](CameBack =>
            (/\ navigationPath = before.navigationPath
             /\ viewMode = before.viewMode
             /\ selectedDevice = before.selectedDevice))

C27_Witness ==
    /\ CameBack
    /\ Len(before.navigationPath) = 2
    /\ navigationPath = <<Item(12), Item(11)>>

\* the state useState gives the App
AppReset ==
    /\ viewMode = VIEW_DEVICES
    /\ selectedDevice = Null
    /\ navigationPath = <<>>

\* handleBackToDevices run a second time changes nothing
BackToDevicesTwice ==
    (event = Event("handleBackToDevices", 0) /\ handleBackToDevices) =>
        UNCHANGED vars

\* what handleBackToVersions does to the state it runs in
BackToVersionsEffect ==
    (event' # event /\ event' = Event("handleBackToVersions", 0)) =>
        /\ navigationPath' = <<>>
        /\ viewMode' = VIEW_VERSIONS
        /\ selectedDevice' = selectedDevice

\* C28: handleBackToDevices can run in every state and leaves the App in
\* its initial state, so that running it again changes nothing;
\* handleBackToVersions empties the path and shows the versions of the
\* device, which stays selected.
C28_BackHandlers ==
    /\ [](ENABLED handleBackToDevices)
    /\ [](event = Event("handleBackToDevices", 0) => AppReset)
    /\ [][BackToDevicesTwice]_vars
    /\ [][BackToVersionsEffect]_vars

C28_Witness ==
    /\ event = Event("handleBackToDevices", 0)
    /\ AppReset
    /\ data = Null

\* C29: the failed-tests table is shown exactly when the path is longer
\* than one folder (the dashboard is not at version level) and failed_tests
\* is not empty: not after handleSelectVersion nor after the breadcrumb at
\* index 0, which leave one folder on the path; after a drill-down it is
\* shown when there are failed tests.
C29_FailedTestsBelowVersion ==
    /\ []((viewMode = VIEW_DASHBOARD /\ data # Null) =>
            (ShowsFailedTests(data) <=>
                (Len(navigationPath) # 1 /\ data.failed_tests # <<>>)))
    /\ []((event.handler = "handleSelectVersion"
             \/ event = Event("handleBreadcrumbClick", 0)) =>
            Len(navigationPath) = 1)
    /\ [](event.handler = "handleDrillDown" => Len(navigationPath) > 1)

C29_Witness ==
    /\ viewMode = VIEW_DASHBOARD
    /\ Len(navigationPath) = 2
    /\ data # Null
    /\ ShowsFailedTests(data)

\* the positions of an argument vector other than the target address
FixedPositions == {1, 2, 3, 4, 5, 6, 7, 9}

\* C25: every probe runs the tool with nine separate arguments: "-v2c",
\* "-c", the community, "-t", the timeout, "-r", the retry count, the
\* address of its target and the OID; two probes differ in the address
\* only, and no probe builds its command as one string.
C25_FixedArgumentVector ==
    \A h \in Hosts :
        argv[h] # Null =>
            /\ argv[h].form = "vector"
            /\ Len(argv[h].args) = 9
            /\ argv[h].args[8] = IPOf(BaseNetwork, h)
            /\ <<argv[h].args[1], argv[h].args[2], argv[h].args[4],
                 argv[h].args[6], argv[h].args[9]>> =
                  <<"-v2c", "-c", "-t", "-r", OID>>
            /\ argv[h].args[3] = Community
            /\ argv[h].args[5] = Digits(Timeout)
            /\ \A g \in Hosts :
                  argv[g] # Null =>
                      \A k \in FixedPositions :
                          argv[g].args[k] = argv[h].args[k]

\* C24: in the ThreadJob loop the jobs the controller tracks are those not
\* finished yet: a completed job is no longer in the collection while the
\* loop hands out targets; once all have completed the output of every job
\* is in the results, and no job is left in the session.
C24_TrackedAreUnfinished ==
    strategy = "threadjob" =>
        /\ pc \in {"throttle", "sleep"} =>
              \A h \in JobsArray : jobs[h] # "Completed"
        /\ pc \in {"report", "done"} =>
              /\ SessionJobs = {}
              /\ \A h \in Hosts :
                    out[h] # Null =>
                        \E k \in 1..Len(Results) : Results[k] = out[h]

(***************************************************************************)
(* C22: the two strategies of v2 against what the tool answers.            *)
(***************************************************************************)
\* the answer of snmpget for host h when the tool gives one answer only
ResponseOf(h) == CHOOSE resp \in tool[h] : TRUE

\* what Invoke-SnmpCheck returns for host h of the sweep
RecordOf(h) ==
    InvokeSnmpCheck(IPOf(BaseNetwork, h), ResponseOf(h).threw,
                    ResponseOf(h).raw)

\* the records of hosts 1..n, in the order of the hosts
RECURSIVE RecordsUpTo(_)
RecordsUpTo(n) ==
    IF n = 0 THEN <<>>
    ELSE IF RecordOf(n) = Null THEN RecordsUpTo(n - 1)
    ELSE Append(RecordsUpTo(n - 1), RecordOf(n))

\* the report both strategies are to end with
ReferenceReport == SortObjectIP(RecordsUpTo(LastHost))

\* every target probed once, with the argument vector of its address
ProbedAsSpecified ==
    \A h \in Hosts :
        /\ invoked[h] = 1
        /\ argv[h] = SplatCommand(IPOf(BaseNetwork, h))

\* the report printed is the reference report
ReportsReference ==
    IF ReferenceReport = <<>>
    THEN emitted = "empty"
    ELSE emitted = "table" /\ table = ReferenceReport

\* C22: with snmpget on the path and one answer per host, a sweep of v2
\* that ends has probed every target once with the same argument vector
\* and printed the same report, whichever strategy ran it: the -Parallel
\* pipeline of PowerShell 7 or the ThreadJob loop of PowerShell 5.1.
C22_StrategiesEquivalent ==
    (script = "v2" /\ pc = "done") =>
        /\ ProbedAsSpecified
        /\ ReportsReference

\* the script waits for its tasks: in the throttle with the cap reached,
\* or in Receive-Job -Wait with a job not completed
WaitsForTasks ==
    \/ pc \in {"throttle", "sleep"} /\ RunningCount >= MaxThreads
    \/ pc = "receive" /\ ~AllCompleted

\* a queued job can start or a running probe can complete
TaskCanStep == \E h \in Hosts : ENABLED JobStart(h) \/ ENABLED JobRun(h)

\* the sweep ended: every target handed out once, every job completed with
\* its outcome, the table or the empty indication printed
SweepEnded ==
    /\ pc = "done"
    /\ emitted \in {"table", "empty"}
    /\ \A h \in Hosts :
          submitted[h] = 1 /\ jobs[h] = "Completed" /\ outcome[h] # "none"

\* C23: when every queued job is started and every running probe returns,
\* the ThreadJob loop once entered leads to the end of the sweep: every
\* target was handed out, every job completed, and the report or the empty
\* indication was printed; and whenever the script waits for its tasks a
\* task can step, so the loop and the tasks never block each other.
C23_SweepTerminates ==
    /\ (strategy = "threadjob") ~> SweepEnded
    /\ [](WaitsForTasks => TaskCanStep)

C23_Witness ==
    /\ SweepEnded
    /\ strategy = "threadjob"
    /\ PSMajor = 5
    /\ installRuns = 1

====
